---- MODULE Spec2Model ----
(***************************************************************************)
(* A model of the bfrscc Brainfuck pipeline: lexer -> parser -> engine     *)
(* (src/src/main.rs, src/src/lexer.rs, src/src/parser.rs) and of the tape  *)
(* machine (src/src/interpreter.rs, src/src/state.rs, src/src/machine.rs). *)
(*                                                                         *)
(* Conventions.  Rust indices are 0-based and kept 0-based in every value  *)
(* the model stores (offsets, positions, targets, idx, pos); a TLA+        *)
(* sequence s modelling a Vec/VecDeque v has v[i] = s[i + 1].              *)
(* Option<usize> is modelled by an integer, None being -1.                 *)
(* A usize that has wrapped below zero (release build) is stored as its    *)
(* signed representative: -k stands for 2^64 - k.                          *)
(***************************************************************************)
EXTENDS Integers, Sequences, FiniteSets, TLC

\* ------------------------------------------------------------------ bounds

\* Longest program text drawn in Init.
MaxLen == 4
\* Longest comment-free program drawn in InitLoops.
MaxLoopLen == 6
\* Step budget of a run: the engine loop itself has none.
MaxSteps == 12
\* Longest tape drawn in InitMachine.
MaxTape == 3

\* --------------------------------------------------------------- constants

\* Wrapping<u8>: cells hold 0..255.
Byte == 256
\* Option::None of a loop target.
None == -1
\* Instruction::new(i, x, 1): the multiplier the parser gives every instruction.
Multiplier == 1

\* The eight instruction characters and one character standing for every other.
InstrChars == {"+", "-", "<", ">", ",", ".", "[", "]"}
CommentChar == "a"
Alphabet == InstrChars \cup {CommentChar}

\* ------------------------------------------------------------------- lexer

\* enum Token: a kind and, for the loop kinds, the Option<usize> it carries.
Token(kind, target) == [kind |-> kind, target |-> target]

\* The match of lexer: one character to its token.
lex_char(x) ==
    CASE x = "+" -> Token("Increase", None)
      [] x = "-" -> Token("Decrease", None)
      [] x = "<" -> Token("MoveLeft", None)
      [] x = ">" -> Token("MoveRight", None)
      [] x = "," -> Token("Input", None)
      [] x = "." -> Token("Output", None)
      [] x = "[" -> Token("LoopBegin", None)
      [] x = "]" -> Token("LoopEnd", None)
      [] OTHER   -> Token("Comment", None)

\* lexer with the offsets counted from 1.
lexer_from_one(text) == [i \in 1..Len(text) |-> <<i, lex_char(text[i])>>]

\* prog.chars().enumerate().map(..).collect(): pairs <<offset, token>>.
lexer(text) == [i \in 1..Len(text) |-> <<i - 1, lex_char(text[i])>>]

\* ------------------------------------------------------------------ parser

IsLoopKind(kind) == kind \in {"LoopBegin", "LoopEnd"}

NotComment(e) == e[2].kind # "Comment"

IsLoopEntry(e) == IsLoopKind(e[2].kind)

\* Instruction::new
Instruction(position, token, multiplier) ==
    [position |-> position, token |-> token, multiplier |-> multiplier]

\* match_loops with a ']' met on an empty stack skipped instead of popped.
RECURSIVE match_loops_skip(_, _, _, _)
match_loops_skip(p, stack, loops, k) ==
    IF k > Len(loops)
    THEN [panic |-> "none", at |-> None, p |-> p, stack |-> stack]
    ELSE LET idx == loops[k][1]
             instr == loops[k][2]
         IN IF instr.kind = "LoopBegin"
            THEN match_loops_skip(p, Append(stack, idx), loops, k + 1)
            ELSE IF stack = <<>>
            THEN match_loops_skip(p, stack, loops, k + 1)
            ELSE LET tmp == stack[Len(stack)]
                     rest == SubSeq(stack, 1, Len(stack) - 1)
                 IN IF tmp >= Len(p)
                    THEN [panic |-> "index", at |-> idx, p |-> p, stack |-> rest]
                    ELSE LET p1 == [p EXCEPT ![tmp + 1] = <<tmp, Token("LoopBegin", idx)>>]
                         IN IF idx >= Len(p1)
                            THEN [panic |-> "index", at |-> idx, p |-> p1, stack |-> rest]
                            ELSE match_loops_skip(
                                   [p1 EXCEPT ![idx + 1] = <<idx, Token("LoopEnd", tmp)>>],
                                   rest, loops, k + 1)

\* match_loops with the oldest pending '[' popped instead of the newest.
RECURSIVE match_loops_fifo(_, _, _, _)
match_loops_fifo(p, stack, loops, k) ==
    IF k > Len(loops)
    THEN [panic |-> "none", at |-> None, p |-> p, stack |-> stack]
    ELSE LET idx == loops[k][1]
             instr == loops[k][2]
         IN IF instr.kind = "LoopBegin"
            THEN match_loops_fifo(p, Append(stack, idx), loops, k + 1)
            ELSE IF stack = <<>>
            THEN [panic |-> "unwrap", at |-> idx, p |-> p, stack |-> stack]
            ELSE LET tmp == stack[1]
                     rest == Tail(stack)
                 IN IF tmp >= Len(p)
                    THEN [panic |-> "index", at |-> idx, p |-> p, stack |-> rest]
                    ELSE LET p1 == [p EXCEPT ![tmp + 1] = <<tmp, Token("LoopBegin", idx)>>]
                         IN IF idx >= Len(p1)
                            THEN [panic |-> "index", at |-> idx, p |-> p1, stack |-> rest]
                            ELSE match_loops_fifo(
                                   [p1 EXCEPT ![idx + 1] = <<idx, Token("LoopEnd", tmp)>>],
                                   rest, loops, k + 1)

\* The `for (idx, instr) in loops` loop of parser, from its k-th iteration on.
\* idx is the first component of the pair, i.e. the offset the lexer gave the
\* character; p[tmp] and p[idx] index the filtered vector with it, and panic
\* when it is out of bounds.  stack.pop().unwrap() panics on an empty stack.
RECURSIVE match_loops(_, _, _, _)
match_loops(p, stack, loops, k) ==
    IF k > Len(loops)
    THEN [panic |-> "none", at |-> None, p |-> p, stack |-> stack]
    ELSE LET idx == loops[k][1]
             instr == loops[k][2]
         IN IF instr.kind = "LoopBegin"
            THEN match_loops(p, Append(stack, idx), loops, k + 1)
            ELSE IF stack = <<>>
            THEN [panic |-> "unwrap", at |-> idx, p |-> p, stack |-> stack]
            ELSE LET tmp == stack[Len(stack)]
                     rest == SubSeq(stack, 1, Len(stack) - 1)
                 IN IF tmp >= Len(p)
                    THEN [panic |-> "index", at |-> idx, p |-> p, stack |-> rest]
                    ELSE LET p1 == [p EXCEPT ![tmp + 1] = <<tmp, Token("LoopBegin", idx)>>]
                         IN IF idx >= Len(p1)
                            THEN [panic |-> "index", at |-> idx, p |-> p1, stack |-> rest]
                            ELSE match_loops(
                                   [p1 EXCEPT ![idx + 1] = <<idx, Token("LoopEnd", tmp)>>],
                                   rest, loops, k + 1)

\* parser: filter the comments out, match the loops, map to instructions.
\* The result carries whether the call panicked; a panicking call returns no
\* stream.  A stack left non-empty at the end of the scan is not looked at.
parser(toks) ==
    LET p == SelectSeq(toks, NotComment)
        loops == SelectSeq(p, IsLoopEntry)
        r == match_loops(p, <<>>, loops, 1)
    IN IF r.panic # "none"
       THEN [panic |-> r.panic, at |-> r.at, stream |-> <<>>]
       ELSE [panic |-> "none", at |-> None,
             stream |-> [i \in 1..Len(r.p) |->
                           Instruction(r.p[i][1], r.p[i][2], Multiplier)]]

\* get_instruction_idx: index of the first instruction whose position field
\* equals `position`, or None.
get_instruction_idx(stream, position) ==
    LET hits_ == {i \in 1..Len(stream) : stream[i].position = position}
    IN IF hits_ = {} THEN None
       ELSE (CHOOSE i \in hits_ : \A j \in hits_ : i <= j) - 1

\* ------------------------------------------------------- the tape machine

\* State::new / Interpreter::new
new_state == [pos |-> 0, tape |-> <<0>>]

\* VecDeque::get(pos) is Some
InTape(s) == s.pos >= 0 /\ s.pos < Len(s.tape)

\* left with the new cells pushed to the back instead of the front.
left_push_back(s, val) ==
    IF s.pos = 0
    THEN {[pos |-> 0, tape |-> s.tape \o [i \in 1..val |-> 0], panic |-> FALSE]}
    ELSE IF s.pos >= val \/ s.pos < 0
    THEN {[pos |-> s.pos - val, tape |-> s.tape, panic |-> FALSE]}
    ELSE {[pos |-> s.pos - val, tape |-> s.tape, panic |-> FALSE],
          [pos |-> s.pos, tape |-> s.tape, panic |-> TRUE]}

\* left: at pos 0 push `val` zero cells to the front; otherwise pos -= val.
\* The subtraction overflows when val > pos: a debug build panics, a release
\* build wraps (stored as the signed representative pos - val).
left(s, val) ==
    IF s.pos = 0
    THEN {[pos |-> 0, tape |-> [i \in 1..val |-> 0] \o s.tape, panic |-> FALSE]}
    ELSE IF s.pos >= val \/ s.pos < 0
    THEN {[pos |-> s.pos - val, tape |-> s.tape, panic |-> FALSE]}
    ELSE {[pos |-> s.pos - val, tape |-> s.tape, panic |-> FALSE],
          [pos |-> s.pos, tape |-> s.tape, panic |-> TRUE]}

\* right_once without the push of a cell.
right_once_no_push(s) == [s EXCEPT !.pos = @ + 1]

\* right_once with a cell pushed at every step.
right_once_push_always(s) == [s EXCEPT !.pos = @ + 1, !.tape = Append(@, 0)]

\* One iteration of the loop of right: pos += 1 and push one zero cell to the
\* back when tape.get(pos) is None.
right_once(s) ==
    IF s.pos + 1 >= 0 /\ s.pos + 1 < Len(s.tape)
    THEN [s EXCEPT !.pos = @ + 1]
    ELSE [s EXCEPT !.pos = @ + 1, !.tape = Append(@, 0)]

\* right: `for _ in 0..val`, val iterations in a row, run as two halves to
\* keep the evaluation shallow.  The test on h always holds (no iteration
\* lowers pos); it is there to have the first half evaluated before the second.
RECURSIVE right(_, _)
right(s, val) ==
    IF val = 0 THEN s
    ELSE IF val = 1 THEN right_once(s)
    ELSE LET h == right(s, val \div 2)
         IN IF h.pos >= s.pos THEN right(h, val - (val \div 2)) ELSE h

\* increase with a saturating instead of a wrapping addition.
increase_saturating(s, val) ==
    IF InTape(s)
    THEN [s EXCEPT !.tape[s.pos + 1] =
            IF s.tape[s.pos + 1] + val >= Byte THEN Byte - 1 ELSE s.tape[s.pos + 1] + val]
    ELSE s

\* increase: if let Some(elem) = tape.get_mut(pos) { *elem += Wrapping(val) }
increase(s, val) ==
    IF InTape(s)
    THEN [s EXCEPT !.tape[s.pos + 1] = (s.tape[s.pos + 1] + val) % Byte]
    ELSE s

\* decrease with the `+=` of increase left in.
decrease_adds(s, val) ==
    IF InTape(s)
    THEN [s EXCEPT !.tape[s.pos + 1] = (s.tape[s.pos + 1] + val) % Byte]
    ELSE s

\* decrease: if let Some(elem) = tape.get_mut(pos) { *elem -= Wrapping(val) }
decrease(s, val) ==
    IF InTape(s)
    THEN [s EXCEPT !.tape[s.pos + 1] = (s.tape[s.pos + 1] + Byte - val) % Byte]
    ELSE s

\* get_val: tape.get(pos).unwrap().0, None (a panic) outside the tape.
get_val(s) == IF InTape(s) THEN s.tape[s.pos + 1] ELSE None

\* ------------------------------------------------------------------ engine

\* print!("{}", v as char): the char U+0000..U+00FF written as UTF-8.
utf8(v) ==
    IF v < 128 THEN <<v>>
    ELSE <<192 + (v \div 64), 128 + (v % 64)>>

Outcome(i, s, emit, panic) == [idx |-> i, s |-> s, emit |-> emit, panic |-> panic]

\* jump with idx set one past x.
jump_past(stream, i, s, target) ==
    LET x == get_instruction_idx(stream, target)
    IN IF x = None THEN Outcome(i, s, <<>>, "no_match")
       ELSE Outcome(x + 1, s, <<>>, "none")

\* jump with the assignment `idx = x` left out.
jump_not_taken(stream, i, s, target) ==
    LET x == get_instruction_idx(stream, target)
    IN IF x = None THEN Outcome(i, s, <<>>, "no_match")
       ELSE Outcome(i, s, <<>>, "none")

\* The taken branch of a loop instruction: idx = x for the x that
\* get_instruction_idx finds, or the "This cannot happen" panic.
jump(stream, i, s, target) ==
    LET x == get_instruction_idx(stream, target)
    IN IF x = None THEN Outcome(i, s, <<>>, "no_match")
       ELSE Outcome(x, s, <<>>, "none")

\* The match of the engine loop on the instruction at index i, before the
\* `idx += 1` that follows it: the outcomes it can have.
dispatch(stream, i, s) ==
    LET ins == stream[i + 1]
        kind == ins.token.kind
        m == ins.multiplier
    IN CASE kind = "MoveRight" -> {Outcome(i, right(s, m), <<>>, "none")}
         [] kind = "MoveLeft" ->
              {Outcome(i, [pos |-> o.pos, tape |-> o.tape], <<>>,
                       IF o.panic THEN "overflow" ELSE "none") : o \in left(s, m)}
         [] kind = "Increase" -> {Outcome(i, increase(s, m), <<>>, "none")}
         [] kind = "Decrease" -> {Outcome(i, decrease(s, m), <<>>, "none")}
         [] kind = "Output" ->
              {IF get_val(s) = None THEN Outcome(i, s, <<>>, "get_val")
               ELSE Outcome(i, s, utf8(get_val(s)), "none")}
         [] kind = "LoopBegin" /\ ins.token.target # None ->
              {IF get_val(s) = None THEN Outcome(i, s, <<>>, "get_val")
               ELSE IF get_val(s) = 0 THEN jump(stream, i, s, ins.token.target)
               ELSE Outcome(i, s, <<>>, "none")}
         [] kind = "LoopEnd" /\ ins.token.target # None ->
              {IF get_val(s) = None THEN Outcome(i, s, <<>>, "get_val")
               ELSE IF get_val(s) # 0 THEN jump(stream, i, s, ins.token.target)
               ELSE Outcome(i, s, <<>>, "none")}
         [] OTHER -> {Outcome(i, s, <<>>, "none")}

\* One iteration of the engine loop: prog.get(idx).unwrap(), the match, then
\* idx += 1.  The caller breaks when the idx returned is >= plen.
step(stream, i, s) ==
    IF i >= Len(stream)
    THEN {Outcome(i, s, <<>>, "fetch")}
    ELSE {IF o.panic = "none" THEN [o EXCEPT !.idx = o.idx + 1] ELSE o :
            o \in dispatch(stream, i, s)}

\* ------------------------------------------- the reference engine of 4.3

\* The transition function as specified: a taken jump sets the instruction
\* pointer to the target (an index into the stream) with no increment, any
\* other instruction increments it.  The data operations are the engine's.

\* Where the reference engine next executes a non-loop instruction when
\* started at ip with the tape as in s: an index, Len(stream) when it halts
\* first, Len(stream) + 1 when it loops forever on loop instructions.
RECURSIVE ref_next_obs(_, _, _, _)
ref_next_obs(stream, ip, s, fuel) ==
    IF ip < 0 \/ ip >= Len(stream) THEN Len(stream)
    ELSE LET tok == stream[ip + 1].token
         IN IF ~IsLoopKind(tok.kind) THEN ip
            ELSE IF tok.target = None \/ get_val(s) = None THEN Len(stream)
            ELSE IF fuel = 0 THEN Len(stream) + 1
            ELSE IF (tok.kind = "LoopBegin") = (get_val(s) = 0)
            THEN ref_next_obs(stream, tok.target, s, fuel - 1)
            ELSE ref_next_obs(stream, ip + 1, s, fuel - 1)

\* The same for the engine under src/: it runs `step` through the loop
\* instructions.
RECURSIVE code_next_obs(_, _, _, _)
code_next_obs(stream, i, s, fuel) ==
    IF i < 0 \/ i >= Len(stream) THEN Len(stream)
    ELSE IF ~IsLoopKind(stream[i + 1].token.kind) THEN i
    ELSE IF fuel = 0 THEN Len(stream) + 1
    ELSE LET o == CHOOSE o \in step(stream, i, s) : TRUE
         IN IF o.panic # "none" THEN Len(stream)
            ELSE code_next_obs(stream, o.idx, s, fuel - 1)

\* The reference engine executes its next non-loop instruction.
ref_follow(stream, r) ==
    LET s == [pos |-> r.pos, tape |-> r.tape]
        k == ref_next_obs(stream, r.ip, s, Len(stream) + 1)
    IN IF k >= Len(stream) THEN r
       ELSE LET o == CHOOSE o \in dispatch(stream, k, s) : o.panic = "none"
            IN [ip |-> k + 1, pos |-> o.s.pos, tape |-> o.s.tape,
                out |-> r.out \o o.emit, last |-> k]

\* ---------------------------------------------- what the claims speak about

\* The instruction characters of a text, in order.
IsInstrChar(c) == c \in InstrChars

Chars(text) == SelectSeq(text, IsInstrChar)

\* Number of positions 1..n of c holding character x.
Count(c, x, n) == Cardinality({k \in 1..n : c[k] = x})

\* Brackets nest like parentheses.
Balanced(c) ==
    /\ Count(c, "[", Len(c)) = Count(c, "]", Len(c))
    /\ \A n \in 1..Len(c) : Count(c, "]", n) <= Count(c, "[", n)

\* The partner (1-based) of the bracket at 1-based position i of a balanced c:
\* the nearest bracket of the other kind with balanced brackets in between.
MatchOf(c, i) ==
    IF c[i] = "["
    THEN CHOOSE j \in (i + 1)..Len(c) :
           /\ c[j] = "]"
           /\ Count(c, "[", j) - Count(c, "[", i) = Count(c, "]", j) - 1 - Count(c, "]", i)
           /\ \A k \in (i + 1)..(j - 1) :
                c[k] = "]" =>
                  Count(c, "[", k) - Count(c, "[", i) # Count(c, "]", k) - 1 - Count(c, "]", i)
    ELSE CHOOSE j \in 1..(i - 1) :
           /\ c[j] = "["
           /\ Count(c, "[", i) - Count(c, "[", j) = Count(c, "]", i) - 1 - Count(c, "]", j)
           /\ \A k \in (j + 1)..(i - 1) :
                c[k] = "[" =>
                  Count(c, "[", i) - Count(c, "[", k) # Count(c, "]", i) - 1 - Count(c, "]", k)

\* The token kind the language gives a character.
KindOf(c) ==
    CASE c = "+" -> "Increase" [] c = "-" -> "Decrease"
      [] c = "<" -> "MoveLeft" [] c = ">" -> "MoveRight"
      [] c = "," -> "Input"    [] c = "." -> "Output"
      [] c = "[" -> "LoopBegin" [] c = "]" -> "LoopEnd"
      [] OTHER -> "Comment"

\* Offsets (0-based, in the text) of the ']' met while no '[' is pending.
UnmatchedClose(text) ==
    {i \in 0..(Len(text) - 1) :
        text[i + 1] = "]" /\ Count(text, "]", i + 1) > Count(text, "[", i + 1)}

\* Some '[' is still pending at some point after which no ']' closes it.
HasUnmatchedOpen(text) ==
    \E i \in 1..Len(text) :
        /\ text[i] = "["
        /\ \A j \in (i + 1)..Len(text) :
              text[j] = "]" =>
                Count(text, "]", j) - Count(text, "]", i)
                   <= Count(text, "[", j) - Count(text, "[", i)

Min(S) == CHOOSE x \in S : \A y \in S : x <= y

\* ------------------------------------------------------------------- state

VARIABLES
    prog,       \* the program text, a sequence of characters
    prog_lex,   \* lexer's result, moved into parser
    instrs,     \* parser's result (`prog` after `let prog = parser(prog_lex)`)
    pc,         \* "lex", "parse", "run", "done", "panic"; "call", "ret"
    err,        \* which panic ended the run
    idx,        \* the engine's instruction index
    pos,        \* State.pos
    tape,       \* State.tape
    out,        \* the bytes written to stdout by the engine loop
    steps,      \* iterations of the engine loop so far
    hits,       \* hits[i + 1]: how often the instruction at index i was fetched
    ref,        \* the reference engine, following the same program
    call        \* a direct call of a Machine method: op, arg, state before

vars == <<prog, prog_lex, instrs, pc, err, idx, pos, tape, out, steps, hits, ref, call>>

plen == Len(instrs)

state == [pos |-> pos, tape |-> tape]

NoErr == [kind |-> "none", at |-> None]

NoCall == [op |-> "none", arg |-> 0, pre |-> new_state]

\* `last` is the index of the instruction it executed last.
ref_new == [ip |-> 0, pos |-> 0, tape |-> <<0>>, out |-> <<>>, last |-> None]

\* All texts of at most n characters over the alphabet A.
Texts(A, n) == UNION {[1..k -> A] : k \in 0..n}

InitOn(texts) ==
    /\ prog \in texts
    /\ prog_lex = <<>>
    /\ instrs = <<>>
    /\ pc = "lex"
    /\ err = NoErr
    /\ idx = 0
    /\ pos = new_state.pos
    /\ tape = new_state.tape
    /\ out = <<>>
    /\ steps = 0
    /\ hits = <<>>
    /\ ref = ref_new
    /\ call = NoCall

Init == InitOn(Texts(Alphabet, MaxLen))

\* let prog_lex = lexer(prog);
Lex ==
    /\ pc = "lex"
    /\ prog_lex' = lexer(prog)
    /\ pc' = "parse"
    /\ UNCHANGED <<prog, instrs, err, idx, pos, tape, out, steps, hits, ref, call>>

\* let prog = parser(prog_lex); a panic in parser ends the process.
Parse ==
    /\ pc = "parse"
    /\ LET r == parser(prog_lex)
       IN /\ instrs' = r.stream
          /\ hits' = [i \in 1..Len(r.stream) |-> 0]
          /\ IF r.panic = "none"
             THEN pc' = "run" /\ err' = NoErr
             ELSE pc' = "panic" /\ err' = [kind |-> "parser_" \o r.panic, at |-> r.at]
    /\ prog_lex' = <<>>
    /\ UNCHANGED <<prog, idx, pos, tape, out, steps, ref, call>>

\* One iteration of `loop { .. }` in main.
Exec ==
    /\ pc = "run"
    /\ \E o \in step(instrs, idx, state) :
         /\ idx' = o.idx
         /\ pos' = o.s.pos
         /\ tape' = o.s.tape
         /\ out' = out \o o.emit
         /\ IF o.panic # "none"
            THEN pc' = "panic" /\ err' = [kind |-> o.panic, at |-> idx]
            ELSE err' = err /\ pc' = IF o.idx >= plen THEN "done" ELSE "run"
         /\ hits' = IF idx < plen THEN [hits EXCEPT ![idx + 1] = @ + 1] ELSE hits
         /\ ref' = IF idx < plen /\ ~IsLoopKind(instrs[idx + 1].token.kind)
                      /\ o.panic = "none"
                   THEN ref_follow(instrs, ref) ELSE ref
    /\ steps' = steps + 1
    /\ UNCHANGED <<prog, prog_lex, instrs, call>>

\* The engine loop under the step budget.
Run == steps < MaxSteps /\ Exec

Next == Lex \/ Parse \/ Run

Spec == Init /\ [][Next]_vars

\* Comment-free programs with balanced brackets, without ',' (which the engine
\* skips).
LoopChars == InstrChars \ {","}

InitLoops == InitOn({t \in Texts(LoopChars, MaxLoopLen) : Balanced(t)})

SpecLoops == InitLoops /\ [][Next]_vars

\* The programs of C6: v times '+', then "[-]", for v in 1..255.
ClearProg(v) == [i \in 1..v |-> "+"] \o <<"[", "-", "]">>

InitClear == InitOn({ClearProg(v) : v \in 1..(Byte - 1)})

\* These runs need no budget: every one of them ends.
NextClear == Lex \/ Parse \/ Exec

SpecClear == InitClear /\ [][NextClear]_vars

\* ------------------------------------------- direct calls of the machine

\* Bytes at the corners of the range.
SampleBytes == {0, 1, Byte \div 2, Byte - 1}

\* The states a call starts from: the one-cell tape holding any byte, and the
\* tapes of 1..MaxTape cells with the cursor on any of them, the cell at the
\* cursor holding a sample byte and the cell at index k elsewhere the mark
\* k + 1.
MachineStates ==
    {[pos |-> 0, tape |-> <<v>>] : v \in 0..(Byte - 1)}
    \cup
    {[pos |-> nq[2], tape |-> [k \in 1..nq[1] |-> IF k = nq[2] + 1 THEN v ELSE k]] :
        nq \in {x \in (1..MaxTape) \X (0..(MaxTape - 1)) : x[2] < x[1]},
        v \in SampleBytes}

InitMachine ==
    /\ \E s \in MachineStates : pos = s.pos /\ tape = s.tape
    /\ pc = "call"
    /\ prog = <<>> /\ prog_lex = <<>> /\ instrs = <<>>
    /\ err = NoErr /\ idx = 0 /\ out = <<>> /\ steps = 0 /\ hits = <<>>
    /\ ref = ref_new /\ call = NoCall

\* The caller's side of a call op(val) that returned with the machine as in s.
Returned(op, val, s) ==
    /\ pos' = s.pos /\ tape' = s.tape
    /\ call' = [op |-> op, arg |-> val, pre |-> state]
    /\ pc' = "ret" /\ err' = err

\* ... and of one that panicked.
Panicked(op, val, kind) ==
    /\ pos' = pos /\ tape' = tape
    /\ call' = [op |-> op, arg |-> val, pre |-> state]
    /\ pc' = "panic" /\ err' = [kind |-> kind, at |-> None]

CallLeft ==
    /\ pc = "call"
    /\ \E val \in 0..(Byte - 1) : \E o \in left(state, val) :
         IF o.panic THEN Panicked("left", val, "overflow")
         ELSE Returned("left", val, [pos |-> o.pos, tape |-> o.tape])
    /\ UNCHANGED <<prog, prog_lex, instrs, idx, out, steps, hits, ref>>

CallRight ==
    /\ pc = "call"
    /\ \E val \in 0..(Byte - 1) : Returned("right", val, right(state, val))
    /\ UNCHANGED <<prog, prog_lex, instrs, idx, out, steps, hits, ref>>

CallIncrease ==
    /\ pc = "call"
    /\ \E val \in 0..(Byte - 1) : Returned("increase", val, increase(state, val))
    /\ UNCHANGED <<prog, prog_lex, instrs, idx, out, steps, hits, ref>>

CallDecrease ==
    /\ pc = "call"
    /\ \E val \in 0..(Byte - 1) : Returned("decrease", val, decrease(state, val))
    /\ UNCHANGED <<prog, prog_lex, instrs, idx, out, steps, hits, ref>>

NextMachine == CallLeft \/ CallRight \/ CallIncrease \/ CallDecrease

SpecMachine == InitMachine /\ [][NextMachine]_vars

\* parser has returned a stream.
Parsed == pc \in {"run", "done"} \/ (pc = "panic" /\ err.kind \notin {"parser_unwrap", "parser_index"})

\* parser has panicked.
ParseFailed == pc = "panic" /\ err.kind \in {"parser_unwrap", "parser_index"}

\* The engine has done nothing.
EngineUntouched ==
    steps = 0 /\ idx = 0 /\ pos = 0 /\ tape = <<0>> /\ out = <<>>

\* The examples of the specification's section 8 that run, as the engine under
\* src/ runs them.
Examples ==
    pc = "done" =>
        /\ prog = <<"+", "+", "+", ".">> => out = <<3>> /\ tape = <<3>>
        /\ prog = <<"+", "[", "-", "]">> => tape = <<0>> /\ hits = <<1, 1, 1, 1>>
        /\ prog = <<">", "+", "<", "-">> => tape = <<255, 1>> /\ pos = 0
        /\ prog = <<"<", "+">> => tape = <<1, 0>> /\ pos = 0

\* C1: in the stream parser returns for a program with balanced brackets
\* (comments allowed), every LoopBegin at index i has a target j > i where a
\* LoopEnd with target i sits; targets are stream indices.
C1_LoopPairing ==
    (Parsed /\ Balanced(Chars(prog))) =>
        \A i \in 0..(plen - 1) :
            instrs[i + 1].token.kind = "LoopBegin" =>
                LET j == instrs[i + 1].token.target
                IN /\ i < j /\ j < plen
                   /\ instrs[j + 1].token.kind = "LoopEnd"
                   /\ instrs[j + 1].token.target = i

\* C2: a program with a '[' that has no matching ']' is rejected by parser:
\* no stream is returned and the engine takes no step.
C2_UnmatchedOpenRejected ==
    (HasUnmatchedOpen(Chars(prog)) /\ pc \notin {"lex", "parse"}) =>
        ParseFailed /\ instrs = <<>> /\ EngineUntouched

C4_CommentOnlyRunsToEnd ==
    (Chars(prog) = <<>> /\ pc \notin {"lex", "parse"}) =>
        /\ instrs = <<>> /\ pc # "panic"
        /\ out = <<>> /\ tape = <<0>> /\ pos = 0
        /\ \A i \in 1..Len(hits) : hits[i] = 0

\* C5: for a program with balanced brackets the kinds in the stream parser
\* returns are the kinds of the program's non-comment characters, in order,
\* and each bracket is paired with the bracket it matches in the program.
C5_CommentsIgnored ==
    (Parsed /\ Balanced(Chars(prog))) =>
        LET c == Chars(prog)
        IN /\ plen = Len(c)
           /\ \A i \in 1..Len(c) :
                /\ instrs[i].token.kind = KindOf(c[i])
                /\ IsLoopKind(KindOf(c[i])) =>
                       instrs[i].token.target = MatchOf(c, i) - 1

\* C6: the program of v '+' and "[-]" halts: its run never panics, every
\* fetch succeeds, and after exactly 3v + 1 iterations of the engine loop (and
\* no later) it is done; the body '-' has then run exactly v times and the
\* tape is the single cell 0.
C6_ClearingLoopTerminates ==
    LET v == Len(prog) - 3
    IN /\ pc # "panic"
       /\ pc = "run" => idx < plen
       /\ steps <= 3 * v + 1
       /\ steps = 3 * v + 1 => pc = "done"
       /\ pc = "done" => /\ hits[v + 2] = v
                         /\ tape = <<0>> /\ pos = 0

\* C6 witness: the run for v = 255 is done, the body having run 255 times.
C6_Witness ==
    /\ pc = "done" /\ Len(prog) = Byte + 2
    /\ hits[Byte + 1] = Byte - 1 /\ tape = <<0>>

\* Where the engine and the reference engine next execute a non-loop
\* instruction (plen: never, the run halts; plen + 1: never, it loops).
ObsCode ==
    IF pc = "run" THEN code_next_obs(instrs, idx, state, plen + 1) ELSE plen

ObsRef ==
    ref_next_obs(instrs, ref.ip, [pos |-> ref.pos, tape |-> ref.tape], plen + 1)

\* The engine and the reference engine have executed the same non-loop
\* instructions, with the same tape, cursor and output, and go on to the same
\* next one, or both halt, or both loop.
EngineEquiv ==
    pc \in {"run", "done", "panic"} =>
        /\ ref.tape = tape /\ ref.pos = pos /\ ref.out = out
        /\ ObsCode = ObsRef

\* A step of the engine on a non-loop instruction is a step of the reference
\* engine on the same instruction.
SameInstr ==
    (pc = "run" /\ idx < plen /\ ~IsLoopKind(instrs[idx + 1].token.kind)) =>
        /\ ref'.last = idx
        /\ ref'.tape = tape' /\ ref'.pos = pos' /\ ref'.out = out'

\* A LoopBegin on a zero cell continues after its LoopEnd, a LoopEnd on a
\* nonzero cell continues at the first instruction of the body, any other
\* loop instruction continues at the next instruction.
JumpAct ==
    (pc = "run" /\ idx < plen /\ IsLoopKind(instrs[idx + 1].token.kind)) =>
        LET kind == instrs[idx + 1].token.kind
            taken == (kind = "LoopBegin") = (get_val(state) = 0)
        IN /\ pc' # "panic"
           /\ idx' = IF taken THEN MatchOf(prog, idx + 1) ELSE idx + 1
           /\ tape' = tape /\ pos' = pos /\ out' = out

\* C7: on every comment-free program with balanced brackets the engine's
\* loop handling (jump to the partner, then add 1) and the specified one (jump
\* to the target without increment) execute the same non-loop instructions
\* with the same tape, cursor and output, and halt on the same programs.
C7_LoopHandlingEquivalent ==
    []EngineEquiv /\ [][SameInstr /\ JumpAct]_vars

\* C7 witness: a run in which a LoopEnd jumped back (it was executed twice)
\* is done, the reference engine having followed it.
C7_Witness ==
    /\ pc = "done"
    /\ \E i \in 1..plen : instrs[i].token.kind = "LoopEnd" /\ hits[i] >= 2
    /\ ref.last # None /\ ref.tape = tape

\* C8: increase(r) and decrease(r) always return, and set the cell at the
\* cursor to (v + r) mod 256 and (v - r) mod 256; the cursor, the length of the
\* tape and every other cell stay as they were.
C8_WrappingArithmetic ==
    call.op \in {"increase", "decrease"} =>
        LET pre == call.pre
            v == pre.tape[pre.pos + 1]
            r == call.arg
            w == IF call.op = "increase" THEN (v + r) % 256 ELSE (v - r) % 256
        IN /\ pc = "ret"
           /\ pos = pre.pos
           /\ Len(tape) = Len(pre.tape)
           /\ \A k \in 1..Len(tape) :
                tape[k] = IF k = pos + 1 THEN w ELSE pre.tape[k]

\* C8 witness: an addition and a subtraction have wrapped around, on a tape
\* with other cells.
C8_Witness ==
    /\ pc = "ret" /\ call.op = "decrease"
    /\ call.pre.tape[call.pre.pos + 1] < call.arg
    /\ Len(tape) > 1
    /\ tape[pos + 1] = Byte - 1

\* C9: left(r) called with the cursor at index 0 returns with the cursor at
\* index 0, r zero cells added at the left end, and the old cells after them
\* in their old order.
C9_LeftAtOriginGrows ==
    (call.op = "left" /\ call.pre.pos = 0) =>
        LET old == call.pre.tape
            r == call.arg
        IN /\ pc = "ret"
           /\ pos = 0
           /\ Len(tape) = Len(old) + r
           /\ \A k \in 1..r : tape[k] = 0
           /\ \A k \in 1..Len(old) : tape[r + k] = old[k]

\* C9 witness: left(255) has returned from a call made at index 0 of a tape
\* of several cells, the first of them not zero.
C9_Witness ==
    /\ pc = "ret" /\ call.op = "left" /\ call.pre.pos = 0
    /\ call.arg = Byte - 1
    /\ Len(call.pre.tape) > 1 /\ call.pre.tape[1] # 0

\* An iteration of the engine loop that executes an Output instruction.
AtOutput ==
    pc = "run" /\ idx < plen /\ instrs[idx + 1].token.kind = "Output"

\* C10: every execution of an Output instruction appends exactly one byte,
\* the value of the cell at the cursor, and leaves tape and cursor alone.
C10_OutputOneByte ==
    [][AtOutput => /\ out' = Append(out, get_val(state))
                   /\ tape' = tape /\ pos' = pos]_vars

\* An iteration of the engine loop that executes an Input instruction.
AtInput ==
    pc = "run" /\ idx < plen /\ instrs[idx + 1].token.kind = "Input"

\* C11: every execution of an Input instruction (no input source exists)
\* stores 0 in the cell at the cursor and leaves the cursor and every other
\* cell as they were.
C11_InputStoresZero ==
    [][AtInput => /\ pc' # "panic"
                  /\ pos' = pos
                  /\ tape' = [tape EXCEPT ![pos + 1] = 0]]_vars

\* The cursor is on a cell of the tape, and the cells are bytes.
TapeOK ==
    /\ Len(tape) >= 1
    /\ 0 <= pos /\ pos < Len(tape)
    /\ \A k \in 1..Len(tape) : tape[k] \in 0..(Byte - 1)

\* The tape does not shrink, and the step has not failed on a cursor or a
\* cell that is not there.
TapeStep ==
    /\ Len(tape') >= Len(tape)
    /\ pc' = "panic" => err'.kind \notin {"overflow", "get_val"}

\* C12: in every state of every run of the engine over a stream parser
\* returned (all multipliers 1) the cursor is an index of the tape, the tape
\* has at least one cell and never loses one, every cell is in 0..255, and no
\* step reads or writes outside the tape.
C12_CursorInTape ==
    /\ [](TapeOK /\ \A i \in 1..plen : instrs[i].multiplier = 1)
    /\ [][TapeStep]_vars

\* C12 witness: a run is done that moved left at index 0, then right past the
\* end of the tape, and wrote there.
C12_Witness ==
    /\ pc = "done" /\ prog = <<"<", ">", ">", "-">>
    /\ Len(tape) = 3 /\ pos = 2 /\ tape[3] = Byte - 1

\* One call op(1) from the state s, which has its cursor on the tape (left(1)
\* has one outcome there).
Once(op, s) ==
    CASE op = "left" ->
           LET o == CHOOSE o \in left(s, 1) : TRUE
           IN [pos |-> o.pos, tape |-> o.tape]
      [] op = "right" -> right(s, 1)
      [] op = "increase" -> increase(s, 1)
      [] op = "decrease" -> decrease(s, 1)

\* r calls op(1) in succession from the state s, run as two halves like right.
RECURSIVE Repeat(_, _, _)
Repeat(op, s, r) ==
    IF r = 0 THEN s
    ELSE IF r = 1 THEN Once(op, s)
    ELSE LET h == Repeat(op, s, r \div 2)
         IN IF h.pos >= 0 THEN Repeat(op, h, r - (r \div 2)) ELSE h

\* C13: a call left(r), right(r), increase(r) or decrease(r) returns, with
\* the tape and the cursor that r calls with the argument 1 give.
C13_RepeatIsIteration ==
    call.op \in {"left", "right", "increase", "decrease"} =>
        /\ pc = "ret"
        /\ state = Repeat(call.op, call.pre, call.arg)

\* An iteration of the engine loop on a loop instruction whose target is unset.
AtUnresolved ==
    /\ pc = "run" /\ idx < plen
    /\ IsLoopKind(instrs[idx + 1].token.kind)
    /\ instrs[idx + 1].token.target = None

\* C14: an iteration of the engine loop that reaches a LoopBegin or LoopEnd
\* with an unset target ends the run with a fatal error at that instruction;
\* the run does not go on past it.
C14_UnresolvedLoopAborts ==
    [][AtUnresolved => /\ pc' = "panic" /\ err'.at = idx
                       /\ idx' = idx]_vars

\* The character a token kind other than Comment stands for.
CharOf(kind) ==
    CASE kind = "Increase" -> "+" [] kind = "Decrease" -> "-"
      [] kind = "MoveLeft" -> "<" [] kind = "MoveRight" -> ">"
      [] kind = "Input" -> ","    [] kind = "Output" -> "."
      [] kind = "LoopBegin" -> "[" [] kind = "LoopEnd" -> "]"

\* The non-Comment tokens of a lexer result, each mapped back to a character.
Unlex(toks) ==
    LET kept == SelectSeq(toks, NotComment)
    IN [i \in 1..Len(kept) |-> CharOf(kept[i][2].kind)]

\* What lexer has returned for the text prog.
Lexed ==
    pc = "parse" =>
        /\ Len(prog_lex) = Len(prog)
        /\ \A i \in 1..Len(prog) :
             /\ prog_lex[i][1] = i - 1
             /\ prog_lex[i][2].kind = KindOf(prog[i])
             /\ prog_lex[i][2].target = None
             /\ prog_lex[i][2].kind = "Comment" <=> prog[i] \notin InstrChars
        /\ \A i, j \in 1..Len(prog) :
             (prog[i] \in InstrChars /\ prog[i] # prog[j]) =>
                 prog_lex[i][2].kind # prog_lex[j][2].kind
        /\ Unlex(prog_lex) = Chars(prog)

\* C15: lexer returns for every text; its result has one pair per character,
\* with the offsets 0, 1, .., n - 1 in order; each instruction character has
\* the token kind of its own (loop tokens with no target), any other character
\* has Comment; and the non-Comment tokens mapped back to characters are the
\* instruction characters of the text, in order.
C15_LexerTotal ==
    /\ []Lexed
    /\ [][pc = "lex" => pc' = "parse" /\ err' = NoErr]_vars

\* C15 witness: a text of comments, brackets and other instruction characters
\* has been lexed.
C15_Witness ==
    /\ pc = "parse" /\ Len(prog_lex) = MaxLen
    /\ prog[1] = CommentChar /\ prog[2] = "[" /\ prog[3] = "," /\ prog[4] = CommentChar

\* C16: right(r) returns with the cursor at pos + r and a tape of
\* max(old length, pos + r + 1) cells, in which the old cells have their old
\* values and every added cell is 0.
C16_RightExtendsWithZeros ==
    call.op = "right" =>
        LET old == call.pre.tape
            r == call.arg
            reach == call.pre.pos + r + 1
        IN /\ pc = "ret"
           /\ pos = call.pre.pos + r
           /\ Len(tape) = IF reach > Len(old) THEN reach ELSE Len(old)
           /\ \A k \in 1..Len(old) : tape[k] = old[k]
           /\ \A k \in (Len(old) + 1)..Len(tape) : tape[k] = 0

\* C16 witness: right(255) has returned from a call made at index 0 of a tape
\* of MaxTape cells, none of them 0: the cursor first crossed cells that were
\* there, then added cells.
C16_Witness ==
    /\ pc = "ret" /\ call.op = "right" /\ call.arg = Byte - 1
    /\ call.pre.pos = 0 /\ Len(call.pre.tape) = MaxTape
    /\ \A k \in 1..MaxTape : call.pre.tape[k] # 0
    /\ Len(tape) = Byte

\* The text prog has instruction characters only.
CommentFree == \A k \in 1..Len(prog) : prog[k] \in InstrChars

\* C17: for a program of instruction characters only, with balanced
\* brackets, parser returns a stream (it does not panic) with one instruction
\* per character, each with its index as position; every loop instruction has
\* its target set, to the index of the nearest bracket of the other kind with
\* balanced brackets in between, which has this one as its target in turn;
\* and get_instruction_idx finds that index for the target.
C17_BalancedParsesPaired ==
    (CommentFree /\ Balanced(prog) /\ pc \notin {"lex", "parse", "call", "ret"}) =>
        /\ Parsed
        /\ plen = Len(prog)
        /\ \A i \in 1..plen :
             LET ins == instrs[i]
             IN /\ ins.position = i - 1
                /\ ins.token.kind = KindOf(prog[i])
                /\ ins.multiplier = 1
                /\ IsLoopKind(ins.token.kind) =>
                     LET j == MatchOf(prog, i)
                     IN /\ ins.token.target # None
                        /\ ins.token.target = j - 1
                        /\ instrs[j].token.target = i - 1
                        /\ instrs[j].token.kind # ins.token.kind
                        /\ (ins.token.kind = "LoopBegin") = (i < j)
                        /\ get_instruction_idx(instrs, ins.token.target) = j - 1
                /\ ~IsLoopKind(ins.token.kind) => ins.token.target = None

\* C17 witness: a program with a loop in a loop and two loops in a row has
\* been parsed.
C17_Witness ==
    /\ pc = "run" /\ steps = 0
    /\ prog = <<"[", "[", "]", "[", "]", "]">>
    /\ instrs[1].token.target = 5 /\ instrs[4].token.target = 4

\* A non-empty program of instruction characters only, with balanced brackets.
Runnable == prog # <<>> /\ CommentFree /\ Balanced(prog)

\* The run has not panicked, the instruction index is an index of the stream
\* while the engine loop runs, and is the length of the stream once it is left.
FetchOK ==
    /\ pc # "panic"
    /\ pc = "run" => 0 <= idx /\ idx < plen
    /\ pc = "done" => idx = plen

\* An iteration of the engine loop fetches its instruction, finds the target
\* of the jump it takes, and leaves the loop if and only if idx has become the
\* length of the stream.
FetchStep ==
    pc = "run" =>
        /\ pc' \in {"run", "done"}
        /\ err' = NoErr
        /\ pc' = "done" <=> idx' = plen
        /\ pc' = "run" => 0 <= idx' /\ idx' < plen

\* C18: in the run of a non-empty program of instruction characters only,
\* with balanced brackets, nothing panics: every fetch finds an instruction
\* (0 <= idx < plen, after a taken jump too), every jump finds its target, and
\* the engine loop is left exactly when idx first becomes the length of the
\* stream.
C18_NoPanicInRun ==
    /\ [](Runnable => FetchOK)
    /\ [][Runnable => FetchStep]_vars

\* C18 witness: a run is done in which a LoopEnd jumped back and the engine
\* went on from the first instruction of the body, and which left the loop
\* after its last instruction, a LoopEnd.
C18_Witness ==
    /\ Runnable /\ pc = "done" /\ idx = plen
    /\ instrs[plen].token.kind = "LoopEnd" /\ hits[plen] >= 2
    /\ hits[instrs[plen].token.target + 2] = hits[plen]

====
